---- MODULE Spec2Model ----
(***************************************************************************)
(* A model of the safe text-mutation core of AI-CLI-TOOLS:                 *)
(*   aiencoding.py  line-oriented file I/O                                 *)
(*   aiedit.py      the edit engine (replace / insert / append / delete)   *)
(*   aibackup.py    the backup store (save / list / prune / restore)       *)
(*                                                                         *)
(* One target file "f" and its backup directory are modelled.  File        *)
(* content is a sequence of characters.  The files of this model hold      *)
(* ASCII text without a byte-order marker, for which detect_encoding and   *)
(* the utf-8 fallback map bytes to characters one to one; what the model   *)
(* keeps of the codec is line splitting (str.splitlines), line joining     *)
(* (writelines) and the failure of the encoder on a character that no      *)
(* codec can encode (a lone surrogate, as sys.argv produces for an         *)
(* undecodable command-line byte).                                         *)
(***************************************************************************)
EXTENDS Integers, Sequences, FiniteSets, TLC

VARIABLES
    file,        \* the target file: [exists |-> BOOLEAN, data |-> Seq(Char)]
    backups,     \* the backup directory's entries for the file: name -> bytes
    backupDir,   \* TRUE iff the backup directory exists
    now,         \* the wall clock, in seconds
    config,      \* the loaded configuration (booleans; numbers are definitions)
    last,        \* the last invocation: command, arguments, how it ended
    hist         \* the creation history of the snapshots

vars == <<file, backups, backupDir, now, config, last, hist>>

-----------------------------------------------------------------------------
(* Bounds of the model *)

MaxBackups == 2          \* backup.max_backups as configured in the model
ConfirmLargeDelete == 1  \* edit.confirm_large_delete as configured in the model
MaxClock == 2            \* the clock runs over 0..MaxClock
MaxFileLen == 3          \* characters of a file of the edit specification
MaxStoreLines == 1       \* lines of a file of the store specification
MaxTagClock == 1         \* the clock of the tag specification runs over 0..MaxTagClock
MaxParseLen == 4         \* characters of a content of the parsing specification

-----------------------------------------------------------------------------
(* Characters *)

LF  == "LF"    \* "\n"
CR  == "CR"    \* "\r"
BSL == "BSL"   \* a backslash
SUR == "SUR"   \* a lone surrogate: no codec encodes it

(* Code points of the characters that occur in backup file names. *)
CharCode(c) ==
    CASE c = "!" -> 33
      [] c = "-" -> 45
      [] c = "." -> 46
      [] c = "0" -> 48
      [] c = "1" -> 49
      [] c = "2" -> 50
      [] c = "3" -> 51
      [] c = "4" -> 52
      [] c = "5" -> 53
      [] c = "6" -> 54
      [] c = "7" -> 55
      [] c = "8" -> 56
      [] c = "9" -> 57
      [] c = "_" -> 95
      [] c = "a" -> 97
      [] c = "b" -> 98
      [] c = "e" -> 101
      [] c = "f" -> 102
      [] c = "o" -> 111
      [] c = "p" -> 112
      [] c = "r" -> 114
      [] c = "s" -> 115
      [] c = "t" -> 116
      [] c = "x" -> 120

Digits == <<"0", "1", "2", "3", "4", "5", "6", "7", "8", "9">>

IsAlnum(c) == CharCode(c) \in (48..57) \cup (97..122)

-----------------------------------------------------------------------------
(* Sequence helpers *)

Last(s) == s[Len(s)]

(* "".join(lines): what writelines puts in the file *)
Concat(ls) ==
    LET joined[i \in 0..Len(ls)] == IF i = 0 THEN <<>> ELSE joined[i - 1] \o ls[i]
    IN joined[Len(ls)]

(* s[lo:hi] of Python, for 0 <= lo and hi <= len(s) *)
Slice(s, lo, hi) == IF hi <= lo THEN <<>> ELSE SubSeq(s, lo + 1, hi)

SeqsUpTo(S, n) == UNION {[1..k -> S] : k \in 0..n}

(* The k-th smallest element of a set of numbers. *)
Nth(S, k) == CHOOSE x \in S : Cardinality({y \in S : y <= x}) = k

-----------------------------------------------------------------------------
(* aiencoding.py *)

(* str.splitlines(keepends=True): a line ends after "\n", after "\r\n" and
   after a "\r" that no "\n" follows; an unterminated rest is a line of its
   own.  LineEnds is the set of the positions where a line ends. *)
LineEnds(data) ==
    {i \in 1..Len(data) :
        \/ data[i] = LF
        \/ data[i] = CR /\ (i = Len(data) \/ data[i + 1] # LF)
        \/ i = Len(data)}

SplitLines(data) ==
    LET ends == LineEnds(data)
    IN [k \in 1..Cardinality(ends) |->
           SubSeq(data, IF k = 1 THEN 1 ELSE Nth(ends, k - 1) + 1, Nth(ends, k))]

(* read_lines_with_encoding: the decoded content split into lines that keep
   their terminators *)
ReadLines(data) == SplitLines(data)

(* The encoder fails on a line that holds a character it cannot encode. *)
Encodable(line) == \A i \in 1..Len(line) : line[i] # SUR

(* Index of the first line the encoder fails on, 0 when there is none. *)
FirstBadLine(lines) ==
    IF \A i \in 1..Len(lines) : Encodable(lines[i]) THEN 0
    ELSE CHOOSE i \in 1..Len(lines) :
            /\ ~Encodable(lines[i])
            /\ \A j \in 1..(i - 1) : Encodable(lines[j])

(* write_lines_with_encoding: open(path, "w") truncates the file, writelines
   encodes line by line; when a line fails to encode the exception leaves the
   with-block, which closes the file and flushes the lines written before. *)
WriteLines(lines) ==
    LET bad == FirstBadLine(lines)
    IN IF bad = 0
       THEN [ok |-> TRUE, data |-> Concat(lines)]
       ELSE [ok |-> FALSE, data |-> Concat(SubSeq(lines, 1, bad - 1))]

-----------------------------------------------------------------------------
(* aiedit.py: content parsing *)

(* content_str.replace("\\n", "\n"): every backslash followed by n, scanned
   left to right, becomes a newline.  expanded[i] is the expansion of the
   first i characters. *)
ExpandEscapes(s) ==
    LET expanded[i \in 0..Len(s)] ==
            IF i = 0 THEN <<>>
            ELSE IF i >= 2 /\ s[i - 1] = BSL /\ s[i] = "n"
                 THEN SubSeq(expanded[i - 1], 1, Len(expanded[i - 1]) - 1) \o <<LF>>
                 ELSE Append(expanded[i - 1], s[i])
    IN expanded[Len(s)]

(* raw.split("\n"): the segments between the newlines; there is always at
   least one segment. *)
SplitOnLF(raw) ==
    LET cuts == {i \in 1..Len(raw) : raw[i] = LF}
        from(k) == IF k = 1 THEN 1 ELSE Nth(cuts, k - 1) + 1
        to(k)   == IF k = Cardinality(cuts) + 1 THEN Len(raw) ELSE Nth(cuts, k) - 1
    IN [k \in 1..(Cardinality(cuts) + 1) |-> SubSeq(raw, from(k), to(k))]

(* A parse_content that keeps the empty segment after a final newline: the
   variant the parsing property has to tell apart. *)
ParseRawKeepTrailing(raw) ==
    LET segs == SplitOnLF(raw)
    IN [i \in 1..Len(segs) |-> Append(segs[i], LF)]

(* The lines of parse_content for the text raw. *)
ParseRaw(raw) ==
    LET segs   == SplitOnLF(raw)
        result == [i \in 1..Len(segs) |-> Append(segs[i], LF)]
    IN IF /\ raw # <<>> /\ Last(raw) = LF
          /\ Len(result) > 1 /\ Last(result) = <<LF>>
       THEN SubSeq(result, 1, Len(result) - 1)
       ELSE result

(* parse_content(content_str, use_stdin).  c is the content of the call:
   [given |-> whether -c was passed, text |-> its value or the text on stdin].
   Without --stdin and without -c the command ends with an error. *)
ParseFails(c, use_stdin) == ~use_stdin /\ ~c.given

ParseContent(c, use_stdin) ==
    IF use_stdin THEN ParseRaw(c.text) ELSE ParseRaw(ExpandEscapes(c.text))

-----------------------------------------------------------------------------
(* aibackup.py *)

Base == <<"f">>                  \* os.path.basename of the target file
PreRestore == <<"p", "r", "e", "-", "r", "e", "s", "t", "o", "r", "e">>

(* datetime.now().strftime(...): a fixed-width, zero-padded stamp.  The model
   keeps the seconds field, two digits wide; the fields before it do not
   change while the clock stays within one minute. *)
TsStr(t) == <<Digits[((t \div 10) % 10) + 1], Digits[(t % 10) + 1]>>

(* "".join(c if c.isalnum() or c in "-_" else "_" for c in tag) *)
Sanitize(tag) ==
    [i \in 1..Len(tag) |->
        IF IsAlnum(tag[i]) \/ tag[i] \in {"-", "_"} THEN tag[i] ELSE "_"]

(* backup_filename(filepath, tag) at time t; tag = <<>> stands for no tag
   (None and the empty string are both falsy). *)
BackupFilename(base, t, tag) ==
    IF tag # <<>>
    THEN base \o <<".">> \o TsStr(t) \o <<".">> \o Sanitize(tag)
    ELSE base \o <<".">> \o TsStr(t)

(* a < b for Python strings: lexicographic by code point *)
StrLess(a, b) ==
    LET lessFrom[i \in 1..(Len(a) + 1)] ==
            IF i > Len(a) THEN i <= Len(b)
            ELSE IF i > Len(b) THEN FALSE
            ELSE IF a[i] = b[i] THEN lessFrom[i + 1]
            ELSE CharCode(a[i]) < CharCode(b[i])
    IN lessFrom[1]

StartsWith(s, prefix) ==
    Len(prefix) <= Len(s) /\ SubSeq(s, 1, Len(prefix)) = prefix

(* sub in s, for Python strings *)
Contains(s, sub) ==
    \E i \in 0..(Len(s) - Len(sub)) : SubSeq(s, i + 1, i + Len(sub)) = sub

(* backups.sort(key=lambda x: x[1]) *)
SortNames(S) ==
    [k \in 1..Cardinality(S) |->
        CHOOSE n \in S : Cardinality({m \in S : StrLess(m, n)}) = k - 1]

(* list_backups(filepath): the names in the backup directory that start with
   "<base>.", sorted; nothing when the directory does not exist. *)
ListBackups(dirExists, entries, base) ==
    IF ~dirExists THEN <<>>
    ELSE SortNames({n \in DOMAIN entries : StartsWith(n, base \o <<".">>)})

Without(entries, names) == [n \in DOMAIN entries \ names |-> entries[n]]

(* A prune_backups whose loop stops one entry early ("while len(backups) >
   max_b + 1"): the variant the size invariant has to tell apart. *)
PruneBackupsOneTooMany(dirExists, entries, base, rmFails) ==
    LET listed == IF ~dirExists THEN <<>>
                  ELSE SortNames({n \in DOMAIN entries : StartsWith(n, base \o <<".">>)})
        excess == Len(listed) - MaxBackups - 1
        popped == IF excess > 0 THEN {listed[i] : i \in 1..excess} ELSE {}
    IN [entries |-> IF rmFails THEN entries
                    ELSE [n \in DOMAIN entries \ popped |-> entries[n]],
        prune   |-> IF popped = {} THEN "none"
                    ELSE IF rmFails THEN "failed" ELSE "removed"]

(* prune_backups(filepath): while the list is longer than max_backups, pop its
   first entry and try to remove it; a failing os.remove is swallowed and the
   loop goes on with the shortened list.  rmFails: os.remove fails in this
   invocation.  Returns the entries left and what became of the popped
   ones: "none" popped, "removed", or "failed" to remove. *)
PruneBackups(dirExists, entries, base, rmFails) ==
    LET listed == ListBackups(dirExists, entries, base)
        excess == Len(listed) - MaxBackups
        popped == IF excess > 0 THEN {listed[i] : i \in 1..excess} ELSE {}
    IN [entries |-> IF rmFails THEN entries ELSE Without(entries, popped),
        prune   |-> IF popped = {} THEN "none"
                    ELSE IF rmFails THEN "failed" ELSE "removed"]

(* The world a command runs in. *)
World == [file |-> file, backups |-> backups, backupDir |-> backupDir,
          now |-> now, config |-> config]

(* The environment of one invocation: whether shutil.copy2 into the backup
   directory raises, and whether os.remove raises. *)
Envs == [copyFails : BOOLEAN, rmFails : BOOLEAN]
NoFailure == [copyFails |-> FALSE, rmFails |-> FALSE]

(* How a command ends: the world it leaves and its outcome.  snap is the
   sequence of snapshot names the command wrote, prune what its pruning did. *)
Result(w, outcome, snap, prune) ==
    [file |-> w.file, backups |-> w.backups, backupDir |-> w.backupDir,
     outcome |-> outcome, snap |-> snap, prune |-> prune]

(* save_backup(filepath, tag).  "NotFound" is sys.exit(1); "CopyFailed" is the
   exception shutil.copy2 raises, after the backup directory was made. *)
SaveBackup(w, tag, env) ==
    IF ~w.file.exists THEN Result(w, "NotFound", <<>>, "none")
    ELSE IF env.copyFails
         THEN Result([w EXCEPT !.backupDir = TRUE], "CopyFailed", <<>>, "none")
    ELSE LET bname  == BackupFilename(Base, w.now, tag)
             copied == [n \in DOMAIN w.backups \cup {bname} |->
                           IF n = bname THEN w.file.data ELSE w.backups[n]]
             pruned == PruneBackups(TRUE, copied, Base, env.rmFails)
         IN Result([w EXCEPT !.backupDir = TRUE, !.backups = pruned.entries],
                   "ok", <<bname>>, pruned.prune)

(* cmd_save *)
CmdSave(w, tag, env) ==
    LET r == SaveBackup(w, tag, env)
    IN IF r.outcome = "CopyFailed" THEN [r EXCEPT !.outcome = "Crash"] ELSE r

(* A second file of the same directory, whose base name is the base name of
   the target file, a dot, and more: its snapshots go to the same backup
   directory.  The model keeps its content fixed. *)
OtherBase == <<"f", ".", "t">>
OtherData == <<"o", LF>>

(* cmd_save of the second file: save_backup with its own base name *)
CmdSaveOther(w, tag) ==
    LET bname  == BackupFilename(OtherBase, w.now, tag)
        copied == [n \in DOMAIN w.backups \cup {bname} |->
                      IF n = bname THEN OtherData ELSE w.backups[n]]
        pruned == PruneBackups(TRUE, copied, OtherBase, FALSE)
    IN Result([w EXCEPT !.backupDir = TRUE, !.backups = pruned.entries],
              "ok", <<bname>>, pruned.prune)

(* The snapshot cmd_restore resolves: <<name>>, or <<>> when none matches.
   With a tag, the list is scanned from its end for a name that contains the
   sanitized tag; without, the last name of the list. *)
ResolveTarget(listed, tag) ==
    IF tag # <<>>
    THEN LET hits == {i \in 1..Len(listed) : Contains(listed[i], Sanitize(tag))}
         IN IF hits = {} THEN <<>>
            ELSE <<listed[CHOOSE i \in hits : \A j \in hits : j <= i]>>
    ELSE <<Last(listed)>>

(* A cmd_restore that takes the pre-restore snapshot before it resolves the
   tag: the variant the tag-not-found property has to tell apart. *)
CmdRestoreSnapshotFirst(w, tag, env) ==
    LET listed == ListBackups(w.backupDir, w.backups, Base)
    IN IF listed = <<>> THEN Result(w, "NoBackups", <<>>, "none")
       ELSE LET target == ResolveTarget(listed, tag)
                s  == IF w.file.exists
                      THEN SaveBackup(w, PreRestore, env)
                      ELSE Result(w, "ok", <<>>, "none")
            IN IF target = <<>> THEN [s EXCEPT !.outcome = "TagNotFound"]
               ELSE IF s.outcome # "ok" THEN [s EXCEPT !.outcome = "Crash"]
               ELSE IF target[1] \notin DOMAIN s.backups
                    THEN [s EXCEPT !.outcome = "Crash"]
               ELSE [s EXCEPT !.file = [exists |-> TRUE,
                                        data |-> s.backups[target[1]]]]

(* cmd_restore.  "Crash" is an exception no handler catches: the copy of the
   pre-restore snapshot failing, or the resolved snapshot being gone when it
   is copied over the file. *)
CmdRestore(w, tag, env) ==
    LET listed == ListBackups(w.backupDir, w.backups, Base)
    IN IF listed = <<>> THEN Result(w, "NoBackups", <<>>, "none")
       ELSE LET target == ResolveTarget(listed, tag)
            IN IF target = <<>> THEN Result(w, "TagNotFound", <<>>, "none")
               ELSE LET s  == IF w.file.exists
                              THEN SaveBackup(w, PreRestore, env)
                              ELSE Result(w, "ok", <<>>, "none")
                    IN IF s.outcome # "ok" THEN [s EXCEPT !.outcome = "Crash"]
                       ELSE IF target[1] \notin DOMAIN s.backups
                            THEN [s EXCEPT !.outcome = "Crash"]
                       ELSE [s EXCEPT !.file = [exists |-> TRUE,
                                                data |-> s.backups[target[1]]]]

-----------------------------------------------------------------------------
(* aidiff.py: the snapshot a diff against a backup resolves *)

(* A scan that takes the first match from the oldest end of the list: the
   variant the resolution property has to tell apart. *)
FindBackupOldestFirst(listed, tag) ==
    IF tag # <<>>
    THEN LET hits == {i \in 1..Len(listed) : Contains(listed[i], Sanitize(tag))}
         IN IF hits = {} THEN <<>>
            ELSE <<listed[CHOOSE i \in hits : \A j \in hits : i <= j]>>
    ELSE <<listed[1]>>

(* The tail of find_backup, for a non-empty list: with a tag, the first name
   of the reversed list that contains the sanitized tag, <<>> when there is
   none; without, backups[-1]. *)
FindBackup(listed, tag) ==
    IF tag # <<>>
    THEN LET safe_tag == Sanitize(tag)
             hits == {i \in 1..Len(listed) : Contains(listed[i], safe_tag)}
         IN IF hits = {} THEN <<>>
            ELSE <<listed[CHOOSE i \in hits : \A j \in hits : j <= i]>>
    ELSE <<listed[Len(listed)]>>

(* aidiff <file> --backup [--tag NAME] up to the resolution of the snapshot;
   the command reads and changes nothing. *)
AidiffFind(w, tag) ==
    LET listed == ListBackups(w.backupDir, w.backups, Base)
    IN IF listed = <<>> THEN Result(w, "NoBackups", <<>>, "none")
       ELSE IF FindBackup(listed, tag) = <<>> THEN Result(w, "TagNotFound", <<>>, "none")
       ELSE Result(w, "ok", <<>>, "none")

-----------------------------------------------------------------------------
(* aiedit.py: the edit engine *)

(* The arguments of one aiedit invocation:
     start    line_start
     end      line_end: <<>> when not given, <<e>> when given
     content  [given, text]: the -c value, or the text on stdin with --stdin
     stdin, force, nobackup: the flags *)
EndOrStart(a) ==
    \* args.line_end if args.line_end else args.line_start
    IF a.end # <<>> /\ a.end[1] # 0 THEN a.end[1] ELSE a.start

(* validate_line(line_num, total) *)
ValidateLine(line_num, total) ==
    IF line_num < 1 THEN "OutOfRange"
    ELSE IF line_num > total THEN "OutOfRange"
    ELSE "ok"

(* The checks at the head of cmd_replace and cmd_delete. *)
ValidateRange(start, end, total) ==
    IF ValidateLine(start, total) # "ok" THEN ValidateLine(start, total)
    ELSE IF ValidateLine(end, total) # "ok" THEN ValidateLine(end, total)
    ELSE IF start > end THEN "InvalidRange"
    ELSE "ok"

(* do_backup(filepath): nothing when backups are off; save_backup otherwise.
   An exception of save_backup becomes a warning and the edit goes on;
   sys.exit of save_backup (file not found) is no Exception and ends the
   invocation. *)
DoBackup(w, env) ==
    IF ~w.config.backup_enabled THEN Result(w, "ok", <<>>, "none")
    ELSE LET r == SaveBackup(w, <<>>, env)
         IN IF r.outcome = "CopyFailed" THEN [r EXCEPT !.outcome = "ok"] ELSE r

(* "if not args.no_backup: do_backup(filepath)", then write_file(lines) *)
BackupAndWrite(w, a, env, lines) ==
    LET b == IF a.nobackup THEN Result(w, "ok", <<>>, "none") ELSE DoBackup(w, env)
        wr == WriteLines(lines)
    IN IF b.outcome # "ok" THEN b
       ELSE [b EXCEPT !.file = [exists |-> TRUE, data |-> wr.data],
                      !.outcome = IF wr.ok THEN "ok" ELSE "WriteError"]

(* list.insert(idx, x) for 0 <= idx *)
ListInsert(lines, idx, x) ==
    IF idx >= Len(lines) THEN Append(lines, x)
    ELSE SubSeq(lines, 1, idx) \o <<x>> \o SubSeq(lines, idx + 1, Len(lines))

(* for i, new_line in enumerate(new_content): lines.insert(idx + i, new_line)
   after[i] is the list after i rounds of the loop. *)
InsertAll(lines, idx, new) ==
    LET after[i \in 0..Len(new)] ==
            IF i = 0 THEN lines ELSE ListInsert(after[i - 1], idx + i - 1, new[i])
    IN after[Len(new)]

(* cmd_replace *)
CmdReplace(w, lines, a, env) ==
    LET total == Len(lines)
        start == a.start
        end   == EndOrStart(a)
        v     == ValidateRange(start, end, total)
    IN IF v # "ok" THEN Result(w, v, <<>>, "none")
       ELSE IF ParseFails(a.content, a.stdin) THEN Result(w, "NoContent", <<>>, "none")
       ELSE BackupAndWrite(w, a, env,
                Slice(lines, 0, start - 1) \o ParseContent(a.content, a.stdin)
                    \o Slice(lines, end, total))

(* A cmd_insert that takes the backup before it validates the line number:
   the variant the validation-before-backup property has to tell apart. *)
CmdInsertBackupFirst(w, lines, a, env) ==
    LET b == IF a.nobackup THEN Result(w, "ok", <<>>, "none") ELSE DoBackup(w, env)
    IN IF a.start < 1 \/ a.start > Len(lines) + 1
       THEN [b EXCEPT !.outcome = "OutOfRange"]
       ELSE IF ParseFails(a.content, a.stdin) THEN Result(w, "NoContent", <<>>, "none")
       ELSE BackupAndWrite(w, a, env,
                InsertAll(lines, a.start - 1, ParseContent(a.content, a.stdin)))

(* cmd_insert *)
CmdInsert(w, lines, a, env) ==
    LET total == Len(lines)
    IN IF a.start < 1 \/ a.start > total + 1 THEN Result(w, "OutOfRange", <<>>, "none")
       ELSE IF ParseFails(a.content, a.stdin) THEN Result(w, "NoContent", <<>>, "none")
       ELSE BackupAndWrite(w, a, env,
                InsertAll(lines, a.start - 1, ParseContent(a.content, a.stdin)))

(* A cmd_append that inserts at line_num - 1, before the line instead of
   after it: the variant the append-is-insert-shifted property has to tell
   apart. *)
CmdAppendBeforeLine(w, lines, a, env) ==
    LET v == ValidateLine(a.start, Len(lines))
    IN IF v # "ok" THEN Result(w, v, <<>>, "none")
       ELSE IF ParseFails(a.content, a.stdin) THEN Result(w, "NoContent", <<>>, "none")
       ELSE BackupAndWrite(w, a, env,
                InsertAll(lines, a.start - 1, ParseContent(a.content, a.stdin)))

(* cmd_append *)
CmdAppend(w, lines, a, env) ==
    LET total == Len(lines)
        v     == ValidateLine(a.start, total)
    IN IF v # "ok" THEN Result(w, v, <<>>, "none")
       ELSE IF ParseFails(a.content, a.stdin) THEN Result(w, "NoContent", <<>>, "none")
       ELSE BackupAndWrite(w, a, env,
                InsertAll(lines, a.start, ParseContent(a.content, a.stdin)))

(* A gate that compares with ">=" instead of ">": the variant the gate
   property has to tell apart. *)
LargeDeleteRejectedAtThreshold(count, force) == count >= ConfirmLargeDelete /\ ~force

(* The large-delete gate of cmd_delete. *)
LargeDeleteRejected(count, force) == count > ConfirmLargeDelete /\ ~force

(* cmd_delete *)
CmdDelete(w, lines, a, env) ==
    LET total == Len(lines)
        start == a.start
        end   == EndOrStart(a)
        v     == ValidateRange(start, end, total)
        count == end - start + 1
    IN IF v # "ok" THEN Result(w, v, <<>>, "none")
       ELSE IF LargeDeleteRejected(count, a.force)
            THEN Result(w, "LargeDeleteRejected", <<>>, "none")
       ELSE BackupAndWrite(w, a, env,
                Slice(lines, 0, start - 1) \o Slice(lines, end, total))

(* read_file(path): a missing file is an error unless edit.create_if_missing
   is set, and then it reads as no lines. *)
FileMissing(w) == ~w.file.exists /\ ~w.config.create_if_missing

LinesOf(w) == IF w.file.exists THEN ReadLines(w.file.data) ELSE <<>>

(* main of aiedit for each action: read_file, then the command *)
AieditReplace(w, a, env) ==
    IF FileMissing(w) THEN Result(w, "NotFound", <<>>, "none")
    ELSE CmdReplace(w, LinesOf(w), a, env)

AieditInsert(w, a, env) ==
    IF FileMissing(w) THEN Result(w, "NotFound", <<>>, "none")
    ELSE CmdInsert(w, LinesOf(w), a, env)

AieditAppend(w, a, env) ==
    IF FileMissing(w) THEN Result(w, "NotFound", <<>>, "none")
    ELSE CmdAppend(w, LinesOf(w), a, env)

AieditDelete(w, a, env) ==
    IF FileMissing(w) THEN Result(w, "NotFound", <<>>, "none")
    ELSE CmdDelete(w, LinesOf(w), a, env)

-----------------------------------------------------------------------------
(* aiencoding.py: bytes and codecs.  A byte is written as its two hex digits.
   A character up to U+00FF is written as the hex digits of its code point,
   except "\n", "\r" and "a", which keep the names the line operators use;
   "FEFF" is the character U+FEFF.  The decoders cover the byte sequences
   the codec specification starts from. *)

BOM_UTF32_LE == <<"FF", "FE", "00", "00">>
BOM_UTF32_BE == <<"00", "00", "FE", "FF">>
BOM_UTF16_LE == <<"FF", "FE">>
BOM_UTF16_BE == <<"FE", "FF">>
BOM_UTF8     == <<"EF", "BB", "BF">>

BOMS == << [bom |-> BOM_UTF32_LE, enc |-> "utf-32"],
           [bom |-> BOM_UTF32_BE, enc |-> "utf-32"],
           [bom |-> BOM_UTF16_LE, enc |-> "utf-16"],
           [bom |-> BOM_UTF16_BE, enc |-> "utf-16"],
           [bom |-> BOM_UTF8,     enc |-> "utf-8-sig"] >>

FALLBACK_ENCODINGS == <<"utf-8", "cp1252", "latin-1">>

AsciiBytes == {"00", "0A", "0D", "61"}

CharOfByte(b) ==
    CASE b = "0A" -> LF
      [] b = "0D" -> CR
      [] b = "61" -> "a"
      [] OTHER    -> b

ByteOfChar(c) ==
    CASE c = LF  -> "0A"
      [] c = CR  -> "0D"
      [] c = "a" -> "61"
      [] OTHER   -> c

(* detect_encoding: the first entry of BOMS that the first four bytes start
   with; "none" stands for None. *)
DetectEncoding(raw) ==
    LET head == SubSeq(raw, 1, IF Len(raw) < 4 THEN Len(raw) ELSE 4)
        hits == {i \in 1..Len(BOMS) : StartsWith(head, BOMS[i].bom)}
    IN IF hits = {} THEN "none"
       ELSE BOMS[CHOOSE i \in hits : \A j \in hits : i <= j].enc

DecodeError == [ok |-> FALSE, text |-> <<>>]

Decoded(c, rest) == IF rest.ok THEN [ok |-> TRUE, text |-> <<c>> \o rest.text] ELSE rest

(* bytes.decode("utf-8") *)
DecodeUtf8(raw) ==
    LET n == Len(raw)
        dec[i \in 1..(n + 1)] ==
            IF i > n THEN [ok |-> TRUE, text |-> <<>>]
            ELSE IF raw[i] \in AsciiBytes THEN Decoded(CharOfByte(raw[i]), dec[i + 1])
            ELSE IF raw[i] = "C3" /\ i + 1 <= n /\ raw[i + 1] = "A9"
                 THEN Decoded("E9", dec[i + 2])
            ELSE IF raw[i] = "EF" /\ i + 2 <= n /\ raw[i + 1] = "BB" /\ raw[i + 2] = "BF"
                 THEN Decoded("FEFF", dec[i + 3])
            ELSE DecodeError
    IN dec[1]

(* The "utf-8-sig" decoder: a leading marker is dropped. *)
DecodeUtf8Sig(raw) ==
    IF StartsWith(raw, BOM_UTF8) THEN DecodeUtf8(SubSeq(raw, 4, Len(raw)))
    ELSE DecodeUtf8(raw)

(* The character of one code unit, given most significant byte first. *)
UnitChar(be) ==
    IF \A i \in 1..(Len(be) - 1) : be[i] = "00" THEN CharOfByte(be[Len(be)])
    ELSE CASE (/\ be[Len(be) - 1] = "FE" /\ be[Len(be)] = "FF"
               /\ \A i \in 1..(Len(be) - 2) : be[i] = "00") -> "FEFF"

Reverse(u) == [i \in 1..Len(u) |-> u[Len(u) + 1 - i]]

(* The "utf-16" (width 2) and "utf-32" (width 4) decoders: the marker gives
   the byte order and is dropped; data that is no whole number of code units
   does not decode. *)
DecodeUnits(raw, width) ==
    LET little == StartsWith(raw, IF width = 2 THEN BOM_UTF16_LE ELSE BOM_UTF32_LE)
        body   == SubSeq(raw, width + 1, Len(raw))
        unit(k) == SubSeq(body, (k - 1) * width + 1, k * width)
    IN IF Len(body) % width # 0 THEN DecodeError
       ELSE [ok |-> TRUE,
             text |-> [k \in 1..(Len(body) \div width) |->
                          UnitChar(IF little THEN Reverse(unit(k)) ELSE unit(k))]]

(* bytes.decode("cp1252"): 0x81 is undefined in the code page *)
DecodeCp1252(raw) ==
    IF \E i \in 1..Len(raw) : raw[i] = "81" THEN DecodeError
    ELSE [ok |-> TRUE, text |-> [i \in 1..Len(raw) |-> CharOfByte(raw[i])]]

(* bytes.decode("latin-1") *)
DecodeLatin1(raw) == [ok |-> TRUE, text |-> [i \in 1..Len(raw) |-> CharOfByte(raw[i])]]

Decode(raw, enc) ==
    CASE enc = "utf-8"     -> DecodeUtf8(raw)
      [] enc = "utf-8-sig" -> DecodeUtf8Sig(raw)
      [] enc = "utf-16"    -> DecodeUnits(raw, 2)
      [] enc = "utf-32"    -> DecodeUnits(raw, 4)
      [] enc = "cp1252"    -> DecodeCp1252(raw)
      [] enc = "latin-1"   -> DecodeLatin1(raw)

(* open(path, "r"): newline=None translates "\r\n" and "\r" to "\n". *)
UniversalNewlines(text) ==
    LET out[i \in 0..Len(text)] ==
            IF i = 0 THEN <<>>
            ELSE IF text[i] = CR THEN Append(out[i - 1], LF)
            ELSE IF text[i] = LF /\ i > 1 /\ text[i - 1] = CR THEN out[i - 1]
            ELSE Append(out[i - 1], text[i])
    IN out[Len(text)]

(* "if content and content[0] == '\ufeff': content = content[1:]" *)
StripMarker(content) ==
    IF content # <<>> /\ content[1] = "FEFF" THEN SubSeq(content, 2, Len(content))
    ELSE content

(* read_with_encoding: [ok, content, enc].  With a marker the file is read
   in text mode with the detected codec, and a decoding error leaves the
   function; without, the bytes are decoded with the first fallback codec
   that accepts them. *)
ReadWithEncoding(raw) ==
    LET bom_enc == DetectEncoding(raw)
        viaBom  == Decode(raw, bom_enc)
        tries   == {i \in 1..Len(FALLBACK_ENCODINGS) : Decode(raw, FALLBACK_ENCODINGS[i]).ok}
        enc     == FALLBACK_ENCODINGS[CHOOSE i \in tries : \A j \in tries : i <= j]
    IN IF bom_enc # "none"
       THEN IF viaBom.ok
            THEN [ok |-> TRUE, content |-> StripMarker(UniversalNewlines(viaBom.text)),
                  enc |-> bom_enc]
            ELSE [ok |-> FALSE, content |-> <<>>, enc |-> bom_enc]
       ELSE [ok |-> TRUE, content |-> StripMarker(Decode(raw, enc).text), enc |-> enc]

(* The bytes of one character in UTF-8. *)
Utf8Bytes(c) ==
    CASE c = "E9"   -> <<"C3", "A9">>
      [] c = "FEFF" -> BOM_UTF8
      [] ByteOfChar(c) \in AsciiBytes -> <<ByteOfChar(c)>>

(* The bytes of one character up to U+00FF as a code unit of width bytes. *)
UnitBytes(c, width, little) ==
    LET be == [i \in 1..width |-> IF i = width THEN ByteOfChar(c) ELSE "00"]
    IN IF little THEN Reverse(be) ELSE be

Flatten(bs) == Concat(bs)

(* The encoder of open(path, "w", encoding=enc) on the text written; little
   is the byte order of the platform (sys.byteorder), which "utf-16" and
   "utf-32" write with, after their marker.  Nothing is emitted, the marker
   included, when nothing is written. *)
Encode(text, enc, little) ==
    LET utf8 == Flatten([i \in 1..Len(text) |-> Utf8Bytes(text[i])])
        units(w) == Flatten([i \in 1..Len(text) |-> UnitBytes(text[i], w, little)])
        bytes == [i \in 1..Len(text) |-> ByteOfChar(text[i])]
    IN CASE enc = "utf-8"     -> utf8
         [] enc = "utf-8-sig" -> BOM_UTF8 \o utf8
         [] enc = "utf-16"    -> (IF little THEN BOM_UTF16_LE ELSE BOM_UTF16_BE) \o units(2)
         [] enc = "utf-32"    -> (IF little THEN BOM_UTF32_LE ELSE BOM_UTF32_BE) \o units(4)
         [] enc = "cp1252"    -> bytes
         [] enc = "latin-1"   -> bytes

(* read_lines_with_encoding followed by write_lines_with_encoding of the
   same lines with the encoding that was returned: [ok, data].  A file that
   does not decode is not written. *)
Rewrite(raw, little) ==
    LET rd    == ReadWithEncoding(raw)
        lines == SplitLines(rd.content)
    IN IF ~rd.ok THEN [ok |-> FALSE, data |-> raw]
       ELSE [ok |-> TRUE,
             data |-> IF lines = <<>> THEN <<>> ELSE Encode(Concat(lines), rd.enc, little)]

-----------------------------------------------------------------------------
(* The state machine: one action per command-line invocation *)

NoArgs == [start |-> 0, end |-> <<>>, content |-> [given |-> FALSE, text |-> <<>>],
           stdin |-> FALSE, nobackup |-> FALSE, force |-> FALSE]

Range(s) == {s[i] : i \in 1..Len(s)}

(* The record of the invocation that just ended: what was asked and how it
   ended.  undoOf holds the content of the file that a successful restore
   replaced. *)
Outcome(op, a, tag, env, r) ==
    [op |-> op, a |-> a, tag |-> tag, env |-> env,
     outcome |-> r.outcome, snap |-> r.snap, prune |-> r.prune,
     undoOf |-> IF op = "restore" /\ r.outcome = "ok" /\ file.exists
                THEN <<file.data>> ELSE <<>>]

(* The creation history of the snapshots, kept when hist.on: the names of the
   last max_backups + 1 snapshots written, oldest first.  orig holds the
   file a round trip started from. *)
History(r) ==
    LET all == hist.recent \o r.snap
    IN IF ~hist.on THEN hist
       ELSE [hist EXCEPT !.recent = IF Len(all) > MaxBackups + 1
                                    THEN SubSeq(all, Len(all) - MaxBackups, Len(all))
                                    ELSE all]

Apply(op, a, tag, env, r) ==
    /\ file' = r.file
    /\ backups' = r.backups
    /\ backupDir' = r.backupDir
    /\ last' = Outcome(op, a, tag, env, r)
    /\ hist' = History(r)
    /\ UNCHANGED <<now, config>>

(* Failing deletions may leave at most one entry beyond max_backups. *)
EnvAllowed(env) ==
    /\ ~(env.copyFails /\ env.rmFails)
    /\ env.rmFails => Cardinality(DOMAIN backups) <= MaxBackups

(* One invocation, ending as r: aiedit <file> <action> ..., aibackup save
   <file> [--tag NAME] or aibackup restore <file> [--tag NAME].  The model
   follows the file while it has at most maxLines lines. *)
Run(op, a, tag, env, r, maxLines) ==
    /\ EnvAllowed(env)
    /\ Len(ReadLines(r.file.data)) <= maxLines
    /\ Apply(op, a, tag, env, r)

(* A second passes. *)
Tick ==
    /\ now < MaxClock
    /\ now' = now + 1
    /\ UNCHANGED <<file, backups, backupDir, config, last, hist>>

InitLast ==
    [op |-> "init", a |-> NoArgs, tag |-> <<>>, env |-> NoFailure,
     outcome |-> "ok", snap |-> <<>>, prune |-> "none", undoOf |-> <<>>]

InitHist(on) == [on |-> on, recent |-> <<>>, orig |-> <<>>]

-----------------------------------------------------------------------------
(* The store specification: every command, on a small file, with the clock *)

StoreTags == {<<>>, <<"x", "!">>}
StoreTexts == {<<"a">>, <<"b">>}
StoreArgs ==
    [start : {1}, end : {<<>>}, content : [given : {TRUE}, text : StoreTexts],
     stdin : {FALSE}, nobackup : BOOLEAN, force : {FALSE}]

Init ==
    /\ file = [exists |-> TRUE, data |-> <<"a", LF>>]
    /\ backups = <<>>
    /\ backupDir = FALSE
    /\ now = 0
    /\ config = [backup_enabled |-> TRUE, create_if_missing |-> FALSE]
    /\ last = InitLast
    /\ hist = InitHist(FALSE)

Replace ==
    \E a \in StoreArgs :
        Run("replace", a, <<>>, NoFailure, AieditReplace(World, a, NoFailure), MaxStoreLines)
Insert ==
    \E a \in StoreArgs :
        Run("insert", a, <<>>, NoFailure, AieditInsert(World, a, NoFailure), MaxStoreLines)
AppendLines ==
    \E a \in StoreArgs :
        Run("append", a, <<>>, NoFailure, AieditAppend(World, a, NoFailure), MaxStoreLines)
Delete ==
    \E a \in StoreArgs :
        Run("delete", a, <<>>, NoFailure, AieditDelete(World, a, NoFailure), MaxStoreLines)
Save ==
    \E tag \in StoreTags :
        Run("save", NoArgs, tag, NoFailure, CmdSave(World, tag, NoFailure), MaxStoreLines)
Restore ==
    \E tag \in StoreTags :
        Run("restore", NoArgs, tag, NoFailure, CmdRestore(World, tag, NoFailure), MaxStoreLines)

Next == Replace \/ Insert \/ AppendLines \/ Delete \/ Save \/ Restore \/ Tick

Spec == Init /\ [][Next]_vars

-----------------------------------------------------------------------------
(* The failure specification: the commands, untagged, in an environment where
   the copy into the backup directory and the deletions of pruning may fail *)

FailArgs ==
    [start : {1}, end : {<<>>}, content : [given : {TRUE}, text : {<<"b">>}],
     stdin : {FALSE}, nobackup : {FALSE}, force : {FALSE}]

FailReplace ==
    \E a \in FailArgs, env \in Envs :
        Run("replace", a, <<>>, env, AieditReplace(World, a, env), MaxStoreLines)
FailSave ==
    \E env \in Envs :
        Run("save", NoArgs, <<>>, env, CmdSave(World, <<>>, env), MaxStoreLines)
FailRestore ==
    \E env \in Envs :
        Run("restore", NoArgs, <<>>, env, CmdRestore(World, <<>>, env), MaxStoreLines)

NextFail == FailReplace \/ FailSave \/ FailRestore \/ Tick

SpecFail == Init /\ [][NextFail]_vars

-----------------------------------------------------------------------------
(* The snapshot specification: the commands that write snapshots, with the
   creation history of the snapshots kept *)

InitSnap ==
    /\ file = [exists |-> TRUE, data |-> <<"a", LF>>]
    /\ backups = <<>>
    /\ backupDir = FALSE
    /\ now = 0
    /\ config = [backup_enabled |-> TRUE, create_if_missing |-> FALSE]
    /\ last = InitLast
    /\ hist = InitHist(TRUE)

NextSnap == Replace \/ Save \/ Restore \/ Tick

SpecSnap == InitSnap /\ [][NextSnap]_vars

-----------------------------------------------------------------------------
(* The tag specification: tagged saves, restores and diffs, with an edit that
   changes the file without a backup *)

TagSet == {<<>>, <<"x">>, <<"x", "!">>}
TagArgs ==
    [start : {1}, end : {<<>>}, content : [given : {TRUE}, text : {<<"b">>}],
     stdin : {FALSE}, nobackup : {TRUE}, force : {FALSE}]

TagReplace ==
    \E a \in TagArgs :
        Run("replace", a, <<>>, NoFailure, AieditReplace(World, a, NoFailure), MaxStoreLines)
TagSave ==
    \E tag \in TagSet :
        Run("save", NoArgs, tag, NoFailure, CmdSave(World, tag, NoFailure), MaxStoreLines)
TagRestore ==
    \E tag \in TagSet :
        Run("restore", NoArgs, tag, NoFailure, CmdRestore(World, tag, NoFailure), MaxStoreLines)
TagDiff ==
    \E tag \in TagSet :
        Run("diff", NoArgs, tag, NoFailure, AidiffFind(World, tag), MaxStoreLines)

(* A second passes. *)
TagTick ==
    /\ now < MaxTagClock
    /\ now' = now + 1
    /\ UNCHANGED <<file, backups, backupDir, config, last, hist>>

NextTag == TagReplace \/ TagSave \/ TagRestore \/ TagDiff \/ TagTick

SpecTag == Init /\ [][NextTag]_vars

-----------------------------------------------------------------------------
(* The edit specification: one edit of any file of up to MaxFileLen
   characters, with every kind of argument *)

FileChars == {"a", LF, CR}

EditTexts ==
    { <<>>,                      \* -c ""
      <<"a">>,
      <<"a", LF>>,               \* a real newline at the end
      <<BSL, "n">>,              \* the two characters backslash, n
      <<"a", BSL, "n", "a">>,
      <<"a", CR, "a">>,          \* a carriage return inside a line
      <<SUR>>,                   \* a character the encoder rejects
      <<"a", LF, SUR>> }

EditContents ==
    {[given |-> FALSE, text |-> <<>>]} \cup [given : {TRUE}, text : EditTexts]

EditArgs(total) ==
    [start : 0..(total + 2),
     end : {<<>>} \cup {<<e>> : e \in 0..(total + 1)},
     content : EditContents, stdin : BOOLEAN, nobackup : BOOLEAN, force : {FALSE}]

DeleteArgs(total) ==
    [start : 0..(total + 2),
     end : {<<>>} \cup {<<e>> : e \in 0..(total + 1)},
     content : {NoArgs.content}, stdin : {FALSE}, nobackup : BOOLEAN, force : BOOLEAN]

LineArgs(total) == {a \in EditArgs(total) : a.end = <<>>}

Total == Len(ReadLines(file.data))
Unbounded == 2 * MaxFileLen + 8   \* more lines than one edit can produce

InitEdit ==
    /\ file \in {[exists |-> FALSE, data |-> <<>>]}
                \cup [exists : {TRUE}, data : SeqsUpTo(FileChars, MaxFileLen)]
    /\ backups = <<>>
    /\ backupDir = FALSE
    /\ now = 0
    /\ config \in [backup_enabled : BOOLEAN, create_if_missing : BOOLEAN]
    /\ last = InitLast
    /\ hist = InitHist(FALSE)

OneReplace ==
    /\ last.op = "init"
    /\ \E a \in EditArgs(Total) :
          Run("replace", a, <<>>, NoFailure, AieditReplace(World, a, NoFailure), Unbounded)
OneInsert ==
    /\ last.op = "init"
    /\ \E a \in LineArgs(Total) :
          Run("insert", a, <<>>, NoFailure, AieditInsert(World, a, NoFailure), Unbounded)
OneAppend ==
    /\ last.op = "init"
    /\ \E a \in LineArgs(Total) :
          Run("append", a, <<>>, NoFailure, AieditAppend(World, a, NoFailure), Unbounded)
OneDelete ==
    /\ last.op = "init"
    /\ \E a \in DeleteArgs(Total) :
          Run("delete", a, <<>>, NoFailure, AieditDelete(World, a, NoFailure), Unbounded)

NextEdit == OneReplace \/ OneInsert \/ OneAppend \/ OneDelete

SpecEdit == InitEdit /\ [][NextEdit]_vars

-----------------------------------------------------------------------------
(* The round-trip specification: with backups disabled, an insert of some
   content, then the delete of the lines the insert added.  Documents and
   contents are text with "\n" as the only line terminator. *)

RoundChars == {"a", LF}
RoundTexts == {t \in EditTexts : \A i \in 1..Len(t) : t[i] \notin {CR, SUR}}
RoundContents == [given : {TRUE}, text : RoundTexts]

InsertArgs(total) ==
    [start : 1..(total + 1), end : {<<>>}, content : RoundContents,
     stdin : BOOLEAN, nobackup : {FALSE}, force : {FALSE}]

(* delete(line, line + len(L) - 1), with --force when len(L) exceeds the
   large-delete threshold, for the insert(line, L) that came before *)
UndoArgs(ins) ==
    LET n == Len(ParseContent(ins.content, ins.stdin))
    IN [start |-> ins.start, end |-> <<ins.start + n - 1>>, content |-> NoArgs.content,
        stdin |-> FALSE, nobackup |-> FALSE, force |-> n > ConfirmLargeDelete]

InitRound ==
    /\ file \in [exists : {TRUE}, data : SeqsUpTo(RoundChars, MaxFileLen)]
    /\ backups = <<>>
    /\ backupDir = FALSE
    /\ now = 0
    /\ config = [backup_enabled |-> FALSE, create_if_missing |-> FALSE]
    /\ last = InitLast
    /\ hist = [InitHist(FALSE) EXCEPT !.orig = <<file.data>>]

RoundInsert ==
    /\ last.op = "init"
    /\ \E a \in InsertArgs(Total) :
          Run("insert", a, <<>>, NoFailure, AieditInsert(World, a, NoFailure), Unbounded)
RoundDelete ==
    /\ last.op = "insert" /\ last.outcome = "ok"
    /\ Run("delete", UndoArgs(last.a), <<>>, NoFailure,
           AieditDelete(World, UndoArgs(last.a), NoFailure), Unbounded)

NextRound == RoundInsert \/ RoundDelete

SpecRound == InitRound /\ [][NextRound]_vars

-----------------------------------------------------------------------------
(* The codec specification: a file in one of the supported encodings is read
   and written back unchanged *)

CodecKinds == {"utf-8", "utf-8-sig", "utf-16-le", "utf-16-be",
               "utf-32-le", "utf-32-be", "cp1252", "latin-1"}

CodecChars(kind) == {"a", LF, CR, "E9"} \cup (IF kind = "latin-1" THEN {"81"} ELSE {})

(* The bytes of a file that holds text in the encoding kind, with the
   marker of the kind. *)
FileBytes(kind, text) ==
    CASE kind = "utf-8"     -> Encode(text, "utf-8", TRUE)
      [] kind = "utf-8-sig" -> Encode(text, "utf-8-sig", TRUE)
      [] kind = "utf-16-le" -> Encode(text, "utf-16", TRUE)
      [] kind = "utf-16-be" -> Encode(text, "utf-16", FALSE)
      [] kind = "utf-32-le" -> Encode(text, "utf-32", TRUE)
      [] kind = "utf-32-be" -> Encode(text, "utf-32", FALSE)
      [] kind = "cp1252"    -> Encode(text, "cp1252", TRUE)
      [] kind = "latin-1"   -> Encode(text, "latin-1", TRUE)

InitCodec ==
    /\ \E kind \in CodecKinds :
          \E text \in SeqsUpTo(CodecChars(kind), MaxFileLen) :
              file = [exists |-> TRUE, data |-> FileBytes(kind, text)]
    /\ backups = <<>>
    /\ backupDir = FALSE
    /\ now = 0
    /\ config \in [backup_enabled : {FALSE}, create_if_missing : {FALSE},
                   little_endian : BOOLEAN]
    /\ last = InitLast
    /\ hist = InitHist(FALSE)

RewriteFile ==
    /\ last.op = "init"
    /\ LET r == Rewrite(file.data, config.little_endian)
       IN /\ file' = [file EXCEPT !.data = r.data]
          /\ last' = [InitLast EXCEPT !.op = "rewrite",
                                      !.outcome = IF r.ok THEN "ok" ELSE "ReadError"]
    /\ UNCHANGED <<backups, backupDir, now, config, hist>>

NextCodec == RewriteFile

SpecCodec == InitCodec /\ [][NextCodec]_vars

-----------------------------------------------------------------------------
(* The parsing specification: one insert of any content of up to MaxParseLen
   characters, by argument or by stdin, at line 1 of an empty file, without
   snapshot: the file then holds the parsed lines. *)

ParseChars == {"a", "n", LF, BSL}

ParseArgs ==
    [start : {1}, end : {<<>>},
     content : [given : {TRUE}, text : SeqsUpTo(ParseChars, MaxParseLen)],
     stdin : BOOLEAN, nobackup : {TRUE}, force : {FALSE}]

InitParse ==
    /\ file = [exists |-> TRUE, data |-> <<>>]
    /\ backups = <<>>
    /\ backupDir = FALSE
    /\ now = 0
    /\ config = [backup_enabled |-> TRUE, create_if_missing |-> FALSE]
    /\ last = InitLast
    /\ hist = InitHist(FALSE)

ParseInsert ==
    /\ last.op = "init"
    /\ \E a \in ParseArgs :
          Run("insert", a, <<>>, NoFailure, AieditInsert(World, a, NoFailure), Unbounded)

NextParse == ParseInsert

SpecParse == InitParse /\ [][NextParse]_vars

-----------------------------------------------------------------------------
(* The two-file specification: the untagged commands on the target file, and
   snapshots of a second file of the same directory *)

NameReplace ==
    \E a \in TagArgs :
        Run("replace", a, <<>>, NoFailure, AieditReplace(World, a, NoFailure), MaxStoreLines)
NameSave ==
    Run("save", NoArgs, <<>>, NoFailure, CmdSave(World, <<>>, NoFailure), MaxStoreLines)
NameSaveOther ==
    Run("save-other", NoArgs, <<>>, NoFailure, CmdSaveOther(World, <<>>), MaxStoreLines)
NameRestore ==
    Run("restore", NoArgs, <<>>, NoFailure, CmdRestore(World, <<>>, NoFailure), MaxStoreLines)

NextNames == NameReplace \/ NameSave \/ NameSaveOther \/ NameRestore \/ TagTick

SpecNames == Init /\ [][NextNames]_vars

-----------------------------------------------------------------------------
(* The matching specification: snapshots of the target file without tag and
   with the tag x, and restores by tags that occur in the base name or in
   the timestamp of every snapshot name *)

MatchTags == {<<"x">>, <<"0">>, <<"f">>}

MatchReplace ==
    \E a \in TagArgs :
        Run("replace", a, <<>>, NoFailure, AieditReplace(World, a, NoFailure), MaxStoreLines)
MatchSave ==
    \E tag \in {<<>>, <<"x">>} :
        Run("save", NoArgs, tag, NoFailure, CmdSave(World, tag, NoFailure), MaxStoreLines)
MatchRestore ==
    \E tag \in MatchTags :
        Run("restore", NoArgs, tag, NoFailure, CmdRestore(World, tag, NoFailure), MaxStoreLines)

NextMatch == MatchReplace \/ MatchSave \/ MatchRestore \/ TagTick

SpecMatch == Init /\ [][NextMatch]_vars

-----------------------------------------------------------------------------
(* Properties *)

EditOps == {"replace", "insert", "append", "delete"}

(* A step that is an invocation of a command: the clock stands still. *)
Invocation == now' = now

(* The snapshots listed for the file in this state and in the next. *)
Listed == ListBackups(backupDir, backups, Base)
ListedNext == ListBackups(backupDir', backups', Base)

(* The lines the file holds before the step. *)
LinesBefore == LinesOf(World)

(* C1: a successful replace(start, end, L), followed by reading the file
   again, yields the lines original[0:start-1] + L + original[end:]. *)
C1_ReplaceYieldsSplice ==
    [][ (Invocation /\ last'.op = "replace" /\ last'.outcome = "ok") =>
            ReadLines(file'.data) =
                Slice(LinesBefore, 0, last'.a.start - 1)
                    \o ParseContent(last'.a.content, last'.a.stdin)
                    \o Slice(LinesBefore, EndOrStart(last'.a), Len(LinesBefore)) ]_vars

(* C2: right after a successful edit that backs up (backup.enabled, no
   --no-backup), the most recent entry of the listed snapshots holds the bytes
   the file had immediately before the edit. *)
C2_EditLeavesPriorStateAsNewest ==
    [][ (/\ Invocation
         /\ last'.op \in EditOps /\ last'.outcome = "ok"
         /\ file.exists /\ config.backup_enabled /\ ~last'.a.nobackup) =>
            /\ ListedNext # <<>>
            /\ backups'[Last(ListedNext)] = file.data ]_vars

(* C3: after a successful restore of an existing file that held content C,
   an immediately following untagged restore returns the file to C. *)
C3_RestoreIsUndoable ==
    [][ (/\ Invocation
         /\ last.op = "restore" /\ last.outcome = "ok" /\ last.undoOf # <<>>
         /\ last'.op = "restore" /\ last'.tag = <<>>) =>
            /\ last'.outcome = "ok"
            /\ file'.data = last.undoOf[1] ]_vars

(* C4: once max_backups + 1 or more snapshots were created, exactly
   max_backups snapshots are listed, and they are the max_backups created
   last. *)
C4_NewestSnapshotsKept ==
    (hist.on /\ Len(hist.recent) = MaxBackups + 1) =>
        /\ Len(Listed) = MaxBackups
        /\ Range(Listed) = {hist.recent[i] : i \in 2..(MaxBackups + 1)}

(* C5, as stated: in every state after an operation that wrote a snapshot, at
   most max_backups snapshots are listed, also when a deletion of pruning
   failed. *)
C5_SizeBoundAlways ==
    last.snap # <<>> => Len(Listed) <= MaxBackups

(* C5, amended: in every state after an operation that wrote a snapshot and
   whose pruning had no deletion fail, at most max_backups snapshots are
   listed. *)
C5_SizeBoundUnlessRemoveFailed ==
    (last.snap # <<>> /\ last.prune # "failed") => Len(Listed) <= MaxBackups

(* Reached: an operation wrote a snapshot at the limit, and its pruning
   removed the excess. *)
C5_PrunedToLimit ==
    /\ last.snap # <<>> /\ last.prune = "removed"
    /\ Len(Listed) = MaxBackups

(* C6: a snapshot call never collides with an earlier one: the name it
   writes is not the name of a snapshot that exists already. *)
C6_SnapshotNamesNeverCollide ==
    [][ (Invocation /\ last'.snap # <<>>) =>
            last'.snap[1] \notin DOMAIN backups ]_vars

(* C7: a snapshot is never mutated: as long as it exists it keeps the bytes
   it held. *)
C7_SnapshotsImmutable ==
    [][ \A n \in DOMAIN backups :
            n \in DOMAIN backups' => backups'[n] = backups[n] ]_vars

(* C8: a delete of a valid range of more than confirm_large_delete lines is
   rejected without --force, leaving the file and the backups as they were;
   with --force it succeeds and the file is the lines outside the range; a
   delete of at most confirm_large_delete lines is never rejected by the
   gate. *)
C8_LargeDeleteGate ==
    [][ (/\ Invocation /\ last'.op = "delete"
         /\ ~FileMissing(World)
         /\ ValidateRange(last'.a.start, EndOrStart(last'.a), Len(LinesBefore)) = "ok") =>
            LET start == last'.a.start
                end   == EndOrStart(last'.a)
                count == end - start + 1
            IN /\ (count > ConfirmLargeDelete /\ ~last'.a.force) =>
                      /\ last'.outcome = "LargeDeleteRejected"
                      /\ last'.snap = <<>>
                      /\ UNCHANGED <<file, backups, backupDir>>
               /\ (count > ConfirmLargeDelete /\ last'.a.force) =>
                      /\ last'.outcome = "ok"
                      /\ file'.data = Concat(Slice(LinesBefore, 0, start - 1)
                                             \o Slice(LinesBefore, end, Len(LinesBefore)))
               /\ count <= ConfirmLargeDelete =>
                      last'.outcome # "LargeDeleteRejected" ]_vars

(* Reached: a delete of more lines than the threshold was rejected. *)
C8_LargeDeleteWasRejected ==
    /\ last.op = "delete" /\ last.outcome = "LargeDeleteRejected"
    /\ ~last.a.force
    /\ EndOrStart(last.a) - last.a.start + 1 > ConfirmLargeDelete
    /\ Len(ReadLines(file.data)) > ConfirmLargeDelete

(* C9: an edit that ends in a validation error leaves the file, the backups
   and the backup directory exactly as they were. *)
C9_ValidationBeforeBackup ==
    [][ (Invocation /\ last'.op \in EditOps
         /\ last'.outcome \in {"OutOfRange", "InvalidRange"}) =>
            UNCHANGED <<file, backups, backupDir>> ]_vars

(* Reached: an insert that would have backed up ended in a validation error. *)
C9_InsertOutOfRange ==
    /\ last.op = "insert" /\ last.outcome = "OutOfRange"
    /\ file.exists /\ config.backup_enabled /\ ~last.a.nobackup
    /\ last.a.content.given

(* C10: an edit that does not complete leaves the file as it was, the failing
   write included. *)
C10_NoPartialApplication ==
    [][ (Invocation /\ last'.op \in EditOps /\ last'.outcome # "ok") =>
            file' = file ]_vars

(* C11: a failure of the automatic snapshot never blocks the edit: an edit
   that read its file and was not stopped by validation, by missing content,
   by the large-delete gate or by the write itself ends in success. *)
C11_BackupFailureNeverBlocks ==
    [][ (/\ Invocation /\ last'.op \in EditOps
         /\ ~FileMissing(World)
         /\ last'.outcome \notin {"OutOfRange", "InvalidRange", "NoContent",
                                  "LargeDeleteRejected", "WriteError"}) =>
            last'.outcome = "ok" ]_vars

(* No listed snapshot name contains the sanitized tag. *)
NoNameContains(tag) ==
    \A i \in 1..Len(Listed) : ~Contains(Listed[i], Sanitize(tag))

(* C12, as stated: a restore with a tag that no listed snapshot name
   contains fails with TagNotFound, leaves the file untouched and writes no
   snapshot. *)
C12_TagNotFoundAlways ==
    [][ (Invocation /\ last'.op = "restore" /\ last'.tag # <<>>
         /\ NoNameContains(last'.tag)) =>
            /\ last'.outcome = "TagNotFound"
            /\ last'.snap = <<>>
            /\ UNCHANGED <<file, backups, backupDir>> ]_vars

(* C12, amended: such a restore fails with TagNotFound when snapshots are
   listed and with NoBackups when none is; either way the file is untouched
   and no snapshot is written. *)
C12_TagNotFoundOrNoBackups ==
    [][ (Invocation /\ last'.op = "restore" /\ last'.tag # <<>>
         /\ NoNameContains(last'.tag)) =>
            /\ last'.outcome = IF Listed = <<>> THEN "NoBackups" ELSE "TagNotFound"
            /\ last'.snap = <<>>
            /\ UNCHANGED <<file, backups, backupDir>> ]_vars

(* Reached: a tagged restore found snapshots, none with the tag, on a file
   that differs from the newest snapshot. *)
C12_TagMissed ==
    /\ last.op = "restore" /\ last.outcome = "TagNotFound" /\ last.tag # <<>>
    /\ Listed # <<>> /\ NoNameContains(last.tag)
    /\ file.exists /\ backups[Last(Listed)] # file.data

(* The positions of the listed names that contain the sanitized tag. *)
Matches(tag) == {i \in 1..Len(Listed) : Contains(Listed[i], Sanitize(tag))}

(* C13: restore and aidiff resolve every tag to the same snapshot: the last
   listed name that contains the sanitized tag, none when no name does; and
   a snapshot just saved under a tag is found by that tag. *)
C13_SameResolution ==
    /\ Listed # <<>> =>
          \A t \in TagSet :
              /\ FindBackup(Listed, t) = ResolveTarget(Listed, t)
              /\ t # <<>> =>
                    FindBackup(Listed, t) =
                        IF Matches(t) = {} THEN <<>>
                        ELSE <<Listed[CHOOSE i \in Matches(t) : \A j \in Matches(t) : j <= i]>>
    /\ (/\ last.op = "save" /\ last.outcome = "ok" /\ last.tag # <<>>
        /\ last.snap[1] \in DOMAIN backups) =>
          Matches(last.tag) # {}

(* Reached: a diff resolved a tag that several listed names contain. *)
C13_SeveralMatches ==
    /\ last.op = "diff" /\ last.outcome = "ok" /\ last.tag # <<>>
    /\ Cardinality(Matches(last.tag)) >= 2
    /\ \E i \in Matches(last.tag) : backups[Listed[i]] # backups[FindBackup(Listed, last.tag)[1]]

(* C14: a restore that resolves a snapshot completes, and leaves the file
   with the bytes that snapshot had when it was resolved. *)
C14_ResolvedSnapshotIsRestored ==
    [][ (/\ Invocation /\ last'.op = "restore"
         /\ Listed # <<>> /\ ResolveTarget(Listed, last'.tag) # <<>>) =>
            /\ last'.outcome = "ok"
            /\ file'.exists
            /\ file'.data = backups[ResolveTarget(Listed, last'.tag)[1]] ]_vars

(* The position of a listed name in the list. *)
PosOf(name) == CHOOSE i \in 1..Len(Listed) : Listed[i] = name

(* C15: the listed order is the creation order: of two listed snapshots,
   the one created later is listed later.  A name counts from its last
   creation. *)
C15_ListedInCreationOrder ==
    hist.on =>
        \A i, j \in 1..Len(hist.recent) :
            (/\ i < j
             /\ hist.recent[i] \in Range(Listed) /\ hist.recent[j] \in Range(Listed)
             /\ \A k \in (i + 1)..Len(hist.recent) : hist.recent[k] # hist.recent[i]
             /\ \A k \in (j + 1)..Len(hist.recent) : hist.recent[k] # hist.recent[j]) =>
                PosOf(hist.recent[i]) < PosOf(hist.recent[j])

(* C17: with backups disabled, insert(line, L) followed by
   delete(line, line + len(L) - 1) succeeds and leaves the document as it
   was before the insert, byte for byte. *)
C17_InsertDeleteRoundTrip ==
    last.op = "delete" =>
        /\ last.outcome = "ok"
        /\ file.data = hist.orig[1]

(* C18: an insert with content is accepted iff 1 <= line <= total + 1, and
   after a successful insert reading the file again yields
   original[0:line-1] + L + original[line-1:]. *)
C18_InsertYieldsSplice ==
    [][ (/\ Invocation /\ last'.op = "insert"
         /\ ~FileMissing(World)
         /\ ~ParseFails(last'.a.content, last'.a.stdin)) =>
            LET total == Len(LinesBefore)
                line  == last'.a.start
                L     == ParseContent(last'.a.content, last'.a.stdin)
            IN /\ (last'.outcome # "OutOfRange") <=> (1 <= line /\ line <= total + 1)
               /\ last'.outcome = "ok" =>
                     /\ ReadLines(file'.data) =
                            Slice(LinesBefore, 0, line - 1) \o L
                                \o Slice(LinesBefore, line - 1, total)
                     /\ Len(ReadLines(file'.data)) = total + Len(L) ]_vars

(* C19: append(line, L) with 1 <= line <= total ends as insert(line + 1, L)
   ends, with the same file and the same backups; append at line 0 and at
   line total + 1 is rejected and leaves the file as it was, while
   insert(total + 1, L) is not rejected as out of range. *)
C19_AppendIsInsertShifted ==
    [][ (Invocation /\ last'.op = "append" /\ ~FileMissing(World)) =>
            LET total == Len(LinesBefore)
                line  == last'.a.start
                asInsert(n) == AieditInsert(World, [last'.a EXCEPT !.start = n], NoFailure)
            IN /\ (1 <= line /\ line <= total) =>
                     /\ file' = asInsert(line + 1).file
                     /\ backups' = asInsert(line + 1).backups
                     /\ last'.outcome = asInsert(line + 1).outcome
               /\ (line = 0 \/ line = total + 1) =>
                     /\ last'.outcome = "OutOfRange"
                     /\ UNCHANGED <<file, backups, backupDir>>
                     /\ asInsert(total + 1).outcome # "OutOfRange" ]_vars

(* Reached: a successful append of several lines after a line that is not the
   last one. *)
C19_AppendedInTheMiddle ==
    /\ last.op = "append" /\ last.outcome = "ok"
    /\ Len(ParseContent(last.a.content, last.a.stdin)) >= 2
    /\ Len(ReadLines(file.data)) >
           last.a.start + Len(ParseContent(last.a.content, last.a.stdin))

(* C20: a replace or delete given an explicit end is accepted iff
   1 <= start <= end <= total; outside that condition, an explicit end of 0
   included, it fails and the file is unchanged. *)
C20_ExplicitRangeValidity ==
    [][ (/\ Invocation /\ last'.op \in {"replace", "delete"}
         /\ ~FileMissing(World)
         /\ last'.a.end # <<>>) =>
            LET total == Len(LinesBefore)
                start == last'.a.start
                end   == last'.a.end[1]
                valid == 1 <= start /\ start <= end /\ end <= total
            IN /\ ~valid => (last'.outcome # "ok" /\ file' = file)
               /\ valid => last'.outcome \notin {"OutOfRange", "InvalidRange"} ]_vars

(* C16: reading the lines of a file in a supported encoding and writing them
   back with the encoding that was detected reproduces the bytes of the
   file, marker and byte order included. *)
C16_EncodingRoundTrip ==
    [][ (Invocation /\ last'.op = "rewrite") =>
            /\ last'.outcome = "ok"
            /\ file'.data = file.data ]_vars

(* main of aiedit: the command chosen by the action argument *)
AieditRun(op, w, a, env) ==
    CASE op = "replace" -> AieditReplace(w, a, env)
      [] op = "insert"  -> AieditInsert(w, a, env)
      [] op = "append"  -> AieditAppend(w, a, env)
      [] op = "delete"  -> AieditDelete(w, a, env)

(* C21: with --no-backup or with backup.enabled false, an edit, successful or
   failed, leaves the snapshots and the backup directory as they were, and
   the file and the outcome are those of the same edit with backups on. *)
C21_SuppressedBackupSameEdit ==
    [][ (/\ Invocation /\ last'.op \in EditOps
         /\ (last'.a.nobackup \/ ~config.backup_enabled)) =>
            LET worldOn == [World EXCEPT !.config.backup_enabled = TRUE]
                withBackup == [last'.a EXCEPT !.nobackup = FALSE]
                on == AieditRun(last'.op, worldOn, withBackup, NoFailure)
            IN /\ backups' = backups
               /\ backupDir' = backupDir
               /\ file' = on.file
               /\ last'.outcome = on.outcome ]_vars

(* C22: the lines parsed from a content are never empty, each ends with a
   newline and holds no other, there is one per newline-separated segment
   less the one empty segment after a final newline, and together they
   spell the text; a content given by argument has its backslash-n pairs
   expanded first, a content read from stdin is taken as it is. *)
C22_ParsedLines ==
    [][ (Invocation /\ last'.op = "insert") =>
            LET Newlines(t) == Cardinality({i \in 1..Len(t) : t[i] = LF})
                EndsWithNewline(t) == t # <<>> /\ Last(t) = LF
                given == last'.a.content.text
                text  == IF last'.a.stdin THEN given ELSE ExpandEscapes(given)
                L     == ReadLines(file'.data)
            IN /\ last'.outcome = "ok"
               /\ L # <<>>
               /\ \A i \in 1..Len(L) :
                     /\ L[i] # <<>> /\ Last(L[i]) = LF
                     /\ Newlines(L[i]) = 1
               /\ Len(L) = Newlines(text) + (IF EndsWithNewline(text) THEN 0 ELSE 1)
               /\ file'.data = IF EndsWithNewline(text) THEN text
                               ELSE Append(text, LF)
               /\ last'.a.stdin =>
                     /\ Len(text) = Len(given)
                     /\ \A i \in 1..Len(given) : text[i] = given[i]
               /\ ~last'.a.stdin =>
                     /\ \A i \in 1..(Len(text) - 1) :
                           ~(text[i] = BSL /\ text[i + 1] = "n")
                     /\ Len(given) - Len(text)
                          = Cardinality({i \in 1..(Len(given) - 1) :
                                given[i] = BSL /\ given[i + 1] = "n"}) ]_vars

(* C22 witness: the argument a, backslash, n, newline was inserted: the pair
   became a newline, the empty segment after the final newline was dropped and
   the file holds the two lines "a\n" and "\n". *)
C22_TrailingSegmentDropped ==
    /\ last.op = "insert" /\ last.outcome = "ok" /\ ~last.a.stdin
    /\ last.a.content.text = <<"a", BSL, "n", LF>>
    /\ ReadLines(file.data) = << <<"a", LF>>, <<LF>> >>

(* C23: with edit.create_if_missing, a missing file is an empty document:
   insert(1, L) with a content the encoder accepts succeeds and creates the
   file holding exactly L, with backups on as well as off; replace, append
   and delete end with a range error and create nothing. *)
C23_MissingFileIsEmptyDocument ==
    [][ (/\ Invocation /\ last'.op \in EditOps
         /\ ~file.exists /\ config.create_if_missing) =>
            LET a == last'.a
                L == ParseContent(a.content, a.stdin)
            IN /\ (/\ last'.op = "insert" /\ a.start = 1
                   /\ ~ParseFails(a.content, a.stdin)
                   /\ FirstBadLine(L) = 0) =>
                      /\ last'.outcome = "ok"
                      /\ file' = [exists |-> TRUE, data |-> Concat(L)]
               /\ last'.op \in {"replace", "append", "delete"} =>
                      /\ last'.outcome \in {"OutOfRange", "InvalidRange"}
                      /\ file' = file ]_vars

(* A snapshot of the second file: snapshots of the target file have the
   timestamp where these have the rest of the base name. *)
IsOtherSnapshot(n) == StartsWith(n, OtherBase \o <<".">>)

(* C24: the snapshots listed for the target file never include one of the
   second file, a command on the target file never deletes or changes a
   snapshot of the second file, and a successful restore of the target file
   leaves it with the content of one of its own snapshots. *)
C24_PerFileIsolation ==
    [][ Invocation =>
            /\ \A i \in 1..Len(ListedNext) : ~IsOtherSnapshot(ListedNext[i])
            /\ last'.op \in {"replace", "save", "restore"} =>
                  \A n \in DOMAIN backups :
                      IsOtherSnapshot(n) =>
                          n \in DOMAIN backups' /\ backups'[n] = backups[n]
            /\ (last'.op = "restore" /\ last'.outcome = "ok") =>
                  \E n \in DOMAIN backups :
                      ~IsOtherSnapshot(n) /\ file'.data = backups[n] ]_vars

(* The tag a snapshot of the target file was created with, sanitized: what
   follows the base name, the timestamp and their dots; empty for a snapshot
   without tag. *)
CreatedTag(name) == SubSeq(name, Len(Base) + Len(TsStr(0)) + 3, Len(name))

(* C25: a successful restore by tag leaves the file with the content of a
   snapshot that was created with a tag whose sanitized form contains the
   sanitized requested tag: not of a snapshot without tag, and not of one
   matched through its base name or its timestamp. *)
C25_TaggedRestoreMatchesTagOnly ==
    [][ (/\ Invocation /\ last'.op = "restore"
         /\ last'.tag # <<>> /\ last'.outcome = "ok") =>
            \E i \in 1..Len(Listed) :
                /\ Contains(CreatedTag(Listed[i]), Sanitize(last'.tag))
                /\ file'.data = backups[Listed[i]] ]_vars

====
